---- MODULE Spec2Model ----
(***************************************************************************)
(* State machine of the Game class of src/src/game.py (crack the code):    *)
(* dealing (new_game), clue rotation (expend_clue), guess submission       *)
(* (submit_solution) and the two readers (get_winners,                     *)
(* get_character_tiles).  One action per method; every action records what *)
(* the call returned or raised in `result`.                                *)
(* The clue catalog of src/src/tiles.py (clue_factory and the answer       *)
(* methods of the queries) is checked under SpecQueries.                   *)
(***************************************************************************)
EXTENDS Integers, Sequences, FiniteSets, TLC

VARIABLES
    players,        \* Game.players: dict in insertion order, as a sequence of
                    \* [id, tiles, made_guess, guessed_correctly]
    solution,       \* Game.solution: list of tiles
    backlog_clues,  \* Game.backlog_clues: list of clue strings
    current_clues,  \* Game.current_clues: list of clue strings
    result,         \* outcome of the last call: value returned or exception raised
    queries,        \* tiles.py: the list returned by the last clue_factory()
    asked,          \* tiles.py: position in queries of the query answered last, 0 if none
    hand,           \* tiles.py: the tiles passed to that answer()
    answer          \* tiles.py: what that answer() returned

game == <<players, solution, backlog_clues, current_clues>>
vars == <<players, solution, backlog_clues, current_clues, result>>
qvars == <<queries, asked, hand, answer>>
allvars == <<players, solution, backlog_clues, current_clues, result,
             queries, asked, hand, answer>>

----------------------------------------------------------------------------
(* Bounds of the model (inputs of the calls)                               *)

MaxNumPlayers == 5     \* new_game is called with num_players in 0..MaxNumPlayers
MaxClues == 8          \* a clues file holds 0..MaxClues clue lines
MaxSeed == 1           \* the random generator is in one of the states 0..MaxSeed
MinPlayerId == 2       \* callers use the ids token{MinPlayerId}..token{MaxPlayerId}
MaxPlayerId == 3
MaxIdx == 1            \* expend_clue is called with idx in -1..MaxIdx
MaxHandNumber == 1     \* answer() is called on tiles with numbers 0..MaxHandNumber
MaxHandLen == 3        \* and on at most MaxHandLen of them

----------------------------------------------------------------------------
(* Program constants                                                       *)

NumNumbers == 10       \* range(10): the tile numbers 0..9
GreenNumber == 5       \* the number whose two tiles are green
PoolSize == 6          \* at most 6 clues are visible
TilesSmallGame == 5    \* tiles per player with fewer than 4 players
TilesFullGame == 4     \* tiles per player with 4 players
\* variant: the lower limit tested with <= instead of <
MinPlayers_OffByOne == 2 + 1
MinPlayers == 2
MaxPlayers == 4

WHITE == "white"
BLACK == "black"
GREEN == "green"
Colours == {WHITE, BLACK, GREEN}

----------------------------------------------------------------------------
(* Python helpers                                                          *)

Min(a, b) == IF a < b THEN a ELSE b

\* a[lo:hi] for 0 <= lo, 0 <= hi: the indices are clamped to the length
Slice(s, lo, hi) ==
    LET h == Min(hi, Len(s))
    IN  IF lo >= h THEN <<>> ELSE [i \in 1..(h - lo) |-> s[lo + i]]

\* str.strip() on a string given as a sequence of characters
IsSpace(c) == c \in {" ", "\n", "\t"}

RECURSIVE LStrip(_)
LStrip(s) ==
    IF s # <<>> /\ IsSpace(Head(s)) THEN LStrip(Tail(s)) ELSE s

RECURSIVE RStrip(_)
RStrip(s) ==
    IF s # <<>> /\ IsSpace(s[Len(s)]) THEN RStrip(SubSeq(s, 1, Len(s) - 1)) ELSE s

Strip(s) == RStrip(LStrip(s))

RECURSIVE GCD(_, _)
GCD(a, b) == IF b = 0 THEN a ELSE GCD(b, a % b)

\* random.shuffle(x) with the generator in state r: a permutation of x.
\* The family: position i receives the element at (stride * i + r + 1) mod len,
\* with stride the first number from 2r+3 on that is coprime to len.
Stride(r, n) ==
    CHOOSE a \in (2 * r + 3)..(2 * r + 3 + n) :
        /\ GCD(a, n) = 1
        /\ \A b \in (2 * r + 3)..(a - 1) : GCD(b, n) # 1

shuffle(x, r) ==
    IF Len(x) = 0 THEN x
    ELSE LET n == Len(x)
             st == Stride(r, n)
         IN  [i \in 1..n |-> x[((st * (i - 1) + r + 1) % n) + 1]]

----------------------------------------------------------------------------
(* class Tile                                                              *)

Tile(number, colour) == [number |-> number, colour |-> colour]

\* variant: the colours are not compared
Tile_eq_NumberOnly(a, b) == a.number = b.number

\* Tile.__eq__
Tile_eq(a, b) == a.number = b.number /\ a.colour = b.colour

\* list.__eq__ over tiles: same length and equal elements, position by position
TileList_eq(a, b) ==
    /\ Len(a) = Len(b)
    /\ \A i \in 1..Len(a) : Tile_eq(a[i], b[i])

\* variant: the weights of number and colour are swapped
sorting_func_SwappedWeights(t) ==
    LET res == t.number
    IN  IF t.colour = BLACK THEN res + 10 ELSE res

\* Tile.sorting_func
sorting_func(t) ==
    LET res == t.number * 10
    IN  IF t.colour = BLACK THEN res + 1 ELSE res

\* sorted(tiles, key=Tile.sorting_func): a stable insertion sort
RECURSIVE Insert(_, _)
Insert(t, s) ==
    IF s = <<>> THEN <<t>>
    ELSE IF sorting_func(t) < sorting_func(Head(s)) THEN <<t>> \o s
    ELSE <<Head(s)>> \o Insert(t, Tail(s))

RECURSIVE sorted(_)
sorted(s) ==
    IF s = <<>> THEN <<>>
    ELSE Insert(s[Len(s)], sorted(SubSeq(s, 1, Len(s) - 1)))

----------------------------------------------------------------------------
(* class Player                                                            *)

Player(id, tiles) ==
    [id |-> id, tiles |-> tiles, made_guess |-> FALSE, guessed_correctly |-> FALSE]

----------------------------------------------------------------------------
(* Results of a call                                                       *)

\* `returns` tells what was returned: "None", "ids" (a list of player ids, in
\* `ids`) or "tiles" (a list of tiles, in `tiles`); `exc` and `msg` name the
\* exception raised, "" when the call returned
ReturnedNone ==
    [exc |-> "", msg |-> "", returns |-> "None", ids |-> <<>>, tiles |-> <<>>]
ReturnedIds(ids) ==
    [exc |-> "", msg |-> "", returns |-> "ids", ids |-> ids, tiles |-> <<>>]
ReturnedTiles(tiles) ==
    [exc |-> "", msg |-> "", returns |-> "tiles", ids |-> <<>>, tiles |-> tiles]
Raised(exc, msg) ==
    [exc |-> exc, msg |-> msg, returns |-> "", ids |-> <<>>, tiles |-> <<>>]

----------------------------------------------------------------------------
(* Inputs of the calls                                                     *)

NumPlayersInputs == 0..MaxNumPlayers
SeedInputs == 0..MaxSeed
PlayerIdInputs == {"token" \o ToString(i) : i \in MinPlayerId..MaxPlayerId}
IdxInputs == -1..MaxIdx

\* a clues file: the sentinel line, then n clue lines "1", "2", ...; the
\* first clue line is indented, every line ends with a newline
ClueLine(i) ==
    IF i = 1 THEN <<" ", ToString(i), "\n">> ELSE <<ToString(i), "\n">>

ClueFile(first_line, n) ==
    <<<<first_line, "\n">>>> \o [i \in 1..n |-> ClueLine(i)]

WellFormedFiles == {ClueFile("IS_CLUES_FILE", n) : n \in 0..MaxClues}

\* a file with another first line, and the empty file
MalformedFiles == {ClueFile("NOT_A_CLUES_FILE", 1), <<>>}

ClueFileInputs == WellFormedFiles \cup MalformedFiles

\* the calls of new_game, <<num_players, clues_file, seed>>: every player
\* count with every well-formed file and every seed where new_game gets as
\* far as reading them; one file and one seed where it raises before
NewGameInputs ==
    {<<n, f, r>> : n \in {3, 4}, f \in WellFormedFiles, r \in SeedInputs}
        \cup {<<n, f, 0>> : n \in {3, 4}, f \in MalformedFiles}
        \cup {<<n, ClueFile("IS_CLUES_FILE", 1), 0>> : n \in NumPlayersInputs \ {3, 4}}

----------------------------------------------------------------------------
(* class Game                                                              *)

\* answer() returns an int (SumQuery, CountQuery) or a list of indices
\* (AdjacencyQuery); "None" before the first call
NoAnswer == [returns |-> "None", int |-> 0, list |-> <<>>]
AnswerInt(n) == [returns |-> "int", int |-> n, list |-> <<>>]
AnswerList(l) == [returns |-> "list", int |-> 0, list |-> l]

\* nothing of tiles.py has been called
NoQueries ==
    /\ queries = <<>>
    /\ asked = 0
    /\ hand = <<>>
    /\ answer = NoAnswer

GameInit ==
    /\ players = <<>>
    /\ solution = <<>>
    /\ backlog_clues = <<>>
    /\ current_clues = <<>>
    /\ result = ReturnedNone

Init == GameInit /\ NoQueries

Keys(ps) == [i \in 1..Len(ps) |-> ps[i].id]

HasPlayer(player_id) == \E i \in 1..Len(players) : players[i].id = player_id

IndexOf(player_id) == CHOOSE i \in 1..Len(players) : players[i].id = player_id

\* the tiles enumerated by new_game, in the order they are appended
RECURSIVE GameTiles(_)
GameTiles(n) ==
    IF n = 0 THEN <<>>
    ELSE LET i == n - 1
             tile_pair == IF i # GreenNumber
                          THEN <<Tile(i, WHITE), Tile(i, BLACK)>>
                          ELSE <<Tile(i, GREEN), Tile(i, GREEN)>>
         IN  GameTiles(n - 1) \o tile_pair

\* [backlog.pop(0) for _ in range(k)]: <<popped, rest>>
RECURSIVE PopFront(_, _, _)
PopFront(backlog, k, popped) ==
    IF k = 0 THEN <<popped, backlog>>
    ELSE PopFront(Tail(backlog), k - 1, Append(popped, Head(backlog)))

readline(file) == IF file = <<>> THEN <<>> ELSE Head(file)
readlines(file) == IF file = <<>> THEN <<>> ELSE Tail(file)

\* variant: the first clues are read by index and stay in the backlog
load_clues_NotPopped(clues_file, seed) ==
    LET lines == readlines(clues_file)
        loaded == [i \in 1..Len(lines) |-> Strip(lines[i])]
        shuffled == shuffle(loaded, seed)
    IN  <<SubSeq(shuffled, 1, Min(PoolSize, Len(shuffled))), shuffled>>

\* new_game, "Load the clues": <<current_clues, backlog_clues>>
load_clues(clues_file, seed) ==
    LET lines == readlines(clues_file)
        loaded == [i \in 1..Len(lines) |-> Strip(lines[i])]
        shuffled == shuffle(loaded, seed)
    IN  PopFront(shuffled, Min(PoolSize, Len(shuffled)), <<>>)

\* variant: enumerate(split_tiles, 1)
token_FromOne(i) == "token" \o ToString(i + 1)

\* f"token{i}"
token(i) == "token" \o ToString(i)

\* variant: range(num_players) chunks, none for the last player
deal_RangeNumPlayers(num_players, seed) ==
    LET game_tiles == shuffle(GameTiles(NumNumbers), seed)
        num_tiles_pp == IF num_players < 4 THEN TilesSmallGame ELSE TilesFullGame
        split_tiles == [i \in 1..num_players |->
                          Slice(game_tiles, (i - 1) * num_tiles_pp, i * num_tiles_pp)]
        hands == Tail(split_tiles)
    IN  [solution |-> sorted(Head(split_tiles)),
         players |-> [i \in 1..Len(hands) |->
                        Player(token(i - 1), sorted(hands[i]))]]

\* new_game, "Enumerate the tiles" and "Shuffle tiles and split into player sets"
deal(num_players, seed) ==
    LET game_tiles == shuffle(GameTiles(NumNumbers), seed)
        num_tiles_pp == IF num_players < 4 THEN TilesSmallGame ELSE TilesFullGame
        split_tiles == [i \in 1..(num_players + 1) |->
                          Slice(game_tiles, (i - 1) * num_tiles_pp, i * num_tiles_pp)]
        hands == Tail(split_tiles)
    IN  [solution |-> sorted(Head(split_tiles)),
         players |-> [i \in 1..Len(hands) |->
                        Player(token(i - 1), sorted(hands[i]))]]

\* the first line read, load_clues and deal over the inputs of new_game,
\* evaluated once
FirstLine == [f \in ClueFileInputs |-> Strip(readline(f))]
Loaded == [f \in ClueFileInputs, r \in SeedInputs |-> load_clues(f, r)]
Dealt == [n \in NumPlayersInputs, r \in SeedInputs |-> deal(n, r)]

\* variant: the sanity checks run before the wipe
wipe_state_Skipped == UNCHANGED game

\* new_game, "Wipe any existing state": done before the sanity checks
wipe_state ==
    /\ solution' = <<>>
    /\ players' = <<>>
    /\ backlog_clues' = <<>>
    /\ current_clues' = <<>>

new_game(num_players, clues_file, seed) ==
    IF num_players < MinPlayers \/ num_players > MaxPlayers THEN
        /\ wipe_state
        /\ result' = Raised("ValueError",
                        "Number of players must be between 2 and 4 inclusive")
    ELSE IF num_players = 2 THEN
        /\ wipe_state
        /\ result' = Raised("NotImplementedError",
                        "2 player games are not supported at the moment")
    ELSE IF FirstLine[clues_file] # <<"IS_CLUES_FILE">> THEN
        /\ wipe_state
        /\ result' = Raised("ValueError", "Invalid clues file")
    ELSE
        \* every wiped attribute is assigned again
        /\ players' = Dealt[num_players, seed].players
        /\ solution' = Dealt[num_players, seed].solution
        /\ current_clues' = Loaded[clues_file, seed][1]
        /\ backlog_clues' = Loaded[clues_file, seed][2]
        /\ result' = ReturnedIds(Keys(players'))

\* variant: no sanity check, an unknown id has no tiles
get_character_tiles_Unchecked(player_id) ==
    /\ UNCHANGED game
    /\ result' = ReturnedTiles(IF HasPlayer(player_id)
                               THEN players[IndexOf(player_id)].tiles ELSE <<>>)

get_character_tiles(player_id) ==
    /\ UNCHANGED game
    /\ IF ~HasPlayer(player_id)
       THEN result' = Raised("ValueError", "Player ID is invalid")
       ELSE result' = ReturnedTiles(players[IndexOf(player_id)].tiles)

\* variant: made_guess is not looked at
already_guessed_Unchecked(player_id) == FALSE

\* submit_solution, second sanity check
already_guessed(player_id) == players[IndexOf(player_id)].made_guess

\* variant: a correct guess ends the game for the others, who count as
\* having guessed
check_submission_ClosesGame(i, submission) ==
    IF TileList_eq(submission, solution)
    THEN [j \in 1..Len(players) |->
             IF j = i THEN [players[j] EXCEPT !.made_guess = TRUE,
                                              !.guessed_correctly = TRUE]
             ELSE [players[j] EXCEPT !.made_guess = TRUE]]
    ELSE [players EXCEPT ![i].made_guess = TRUE]

\* variant: made_guess is set in an else branch
check_submission_ElseBranch(i, submission) ==
    IF TileList_eq(submission, solution)
    THEN [players EXCEPT ![i].guessed_correctly = TRUE]
    ELSE [players EXCEPT ![i].made_guess = TRUE]

\* submit_solution, "Check the submission": players afterwards
check_submission(i, submission) ==
    [players EXCEPT
        ![i].made_guess = TRUE,
        ![i].guessed_correctly =
            IF TileList_eq(submission, solution) THEN TRUE ELSE @]

submit_solution(player_id, submission) ==
    IF ~HasPlayer(player_id) THEN
        /\ UNCHANGED game
        /\ result' = Raised("ValueError", "Player ID is invalid")
    ELSE IF already_guessed(player_id) THEN
        /\ UNCHANGED game
        /\ result' = Raised("ValueError", "Player has already submitted a guess")
    ELSE
        /\ players' = check_submission(IndexOf(player_id), submission)
        /\ UNCHANGED <<solution, backlog_clues, current_clues>>
        /\ result' = ReturnedNone

\* variant: the filter reads made_guess
Winners_MadeGuess(ps) == SelectSeq(ps, LAMBDA p : p.made_guess)

\* get_winners: the items of players whose player guessed correctly
Winners(ps) == SelectSeq(ps, LAMBDA p : p.guessed_correctly)

get_winners ==
    /\ UNCHANGED game
    /\ result' = ReturnedIds(Keys(Winners(players)))

\* variant: negative indices pass
index_invalid_UpperOnly(idx) == idx >= Len(current_clues)

\* expend_clue, sanity check
index_invalid(idx) == idx < 0 \/ idx >= Len(current_clues)

\* variant: the first backlog entry is read but not popped
pop_backlog_Kept == backlog_clues

\* backlog_clues after "Replace the clue": pop(0) when it is not empty
pop_backlog ==
    IF Len(backlog_clues) > 0 THEN Tail(backlog_clues) ELSE backlog_clues

expend_clue(idx) ==
    IF index_invalid(idx) THEN
        /\ UNCHANGED game
        /\ result' = Raised("ValueError", "Index is invalid")
    ELSE
        LET new_clue == IF Len(backlog_clues) > 0 THEN Head(backlog_clues) ELSE <<>>
            \* a negative idx counts from the end of the list
            pos == IF idx < 0 THEN Len(current_clues) + idx + 1 ELSE idx + 1
        IN  /\ backlog_clues' = pop_backlog
            /\ current_clues' = [current_clues EXCEPT ![pos] = new_clue]
            /\ UNCHANGED <<players, solution>>
            /\ result' = ReturnedNone

----------------------------------------------------------------------------
(* Inputs of submit_solution, and the calls                                *)

Reverse(s) == [i \in 1..Len(s) |-> s[Len(s) + 1 - i]]

Recolour(t) == Tile(t.number, IF t.colour = WHITE THEN BLACK ELSE WHITE)

\* submissions: the solution, the solution in reverse order, the solution
\* with its first tile in another colour, the solution without its last tile,
\* and the hand of the first player
SubmissionInputs ==
    {solution, Reverse(solution)}
        \cup (IF solution = <<>> THEN {}
              ELSE {[solution EXCEPT ![1] = Recolour(@)],
                    SubSeq(solution, 1, Len(solution) - 1)})
        \cup (IF players = <<>> THEN {} ELSE {players[1].tiles})

\* the methods of Game touch nothing of tiles.py
Next ==
    \/ \E c \in NewGameInputs : new_game(c[1], c[2], c[3]) /\ UNCHANGED qvars
    \/ \E p \in PlayerIdInputs : get_character_tiles(p) /\ UNCHANGED qvars
    \/ \E p \in PlayerIdInputs, s \in SubmissionInputs :
           submit_solution(p, s) /\ UNCHANGED qvars
    \/ get_winners /\ UNCHANGED qvars
    \/ \E idx \in IdxInputs : expend_clue(idx) /\ UNCHANGED qvars

Spec == Init /\ [][Next]_allvars

----------------------------------------------------------------------------
(* The clue catalog (src/src/tiles.py).  A query is its class, the string  *)
(* it was built from and its description; the closure it was built with is *)
(* looked up by class and string.                                          *)

Query(cls, name, description) ==
    [cls |-> cls, name |-> name, description |-> description]

SumQuery(location) ==
    Query("SumQuery", location, "What is the sum of the " \o location \o " tiles?")

CountQuery(feature) ==
    Query("CountQuery", feature, "How many " \o feature \o " tiles are there?")

AdjacencyQuery(feature) ==
    Query("AdjacencyQuery", feature, "Which adjacent tiles are " \o feature \o "?")

\* variant: the list without its last query
clue_factory_NoSequential ==
    << SumQuery("white"), SumQuery("black"), SumQuery("green"),
       SumQuery("right"), SumQuery("left"),
       CountQuery("even"), CountQuery("odd"), CountQuery("white"),
       CountQuery("black"), CountQuery("greater than 5"),
       CountQuery("less than 5"),
       AdjacencyQuery("the same colour") >>

clue_factory ==
    << SumQuery("white"), SumQuery("black"), SumQuery("green"),
       SumQuery("right"), SumQuery("left"),
       CountQuery("even"), CountQuery("odd"), CountQuery("white"),
       CountQuery("black"), CountQuery("greater than 5"),
       CountQuery("less than 5"),
       AdjacencyQuery("the same colour"), AdjacencyQuery("sequential") >>

\* tiles[-1:-4:-1]: from the last tile leftwards, at most three tiles
LastThreeBackwards(tiles) ==
    [i \in 1..Min(3, Len(tiles)) |-> tiles[Len(tiles) + 1 - i]]

\* the lambdas given to SumQuery
subset_func(location, tiles) ==
    CASE location = "white" -> SelectSeq(tiles, LAMBDA t : t.colour = WHITE)
      [] location = "black" -> SelectSeq(tiles, LAMBDA t : t.colour = BLACK)
      [] location = "green" -> SelectSeq(tiles, LAMBDA t : t.colour = GREEN)
      [] location = "right" -> Reverse(LastThreeBackwards(tiles))
      [] location = "left" -> Slice(tiles, 0, 3)

\* the lambdas given to CountQuery
count_func(feature, t) ==
    CASE feature = "even" -> t.number % 2 = 0
      [] feature = "odd" -> t.number % 2 = 1
      [] feature = "white" -> t.colour = WHITE
      [] feature = "black" -> t.colour = BLACK
      [] feature = "greater than 5" -> t.number > 5
      [] feature = "less than 5" -> t.number < 5

\* the lambdas given to AdjacencyQuery
adjacency_func(feature, t1, t2) ==
    CASE feature = "the same colour" -> t1.colour = t2.colour
      [] feature = "sequential" -> t1.number + 1 = t2.number

RECURSIVE sum_numbers(_)
sum_numbers(tiles) ==
    IF tiles = <<>> THEN 0 ELSE Head(tiles).number + sum_numbers(Tail(tiles))

\* variant: only the left index of a related pair is added
related_pair_LeftOnly(i) == {i}

\* ret.add(i); ret.add(i + 1)
related_pair(i) == {i, i + 1}

\* AdjacencyQuery.answer, the loop from index i on (indices from 0)
RECURSIVE adjacency_loop(_, _, _, _)
adjacency_loop(feature, tiles, i, ret) ==
    IF i >= Len(tiles) - 1 THEN ret
    ELSE adjacency_loop(feature, tiles, i + 1,
             IF adjacency_func(feature, tiles[i + 1], tiles[i + 2])
             THEN ret \cup related_pair(i) ELSE ret)

\* list(ret): the elements of a set in an order the language does not fix
ListsOf(S) ==
    {l \in [1..Cardinality(S) -> S] : \A i, j \in 1..Cardinality(S) : l[i] = l[j] => i = j}

\* the values answer(tiles) of query q can return
answers(q, tiles) ==
    CASE q.cls = "SumQuery" ->
             {AnswerInt(sum_numbers(subset_func(q.name, tiles)))}
      [] q.cls = "CountQuery" ->
             {AnswerInt(Len(SelectSeq(tiles, LAMBDA t : count_func(q.name, t))))}
      [] q.cls = "AdjacencyQuery" ->
             {AnswerList(l) : l \in ListsOf(adjacency_loop(q.name, tiles, 0, {}))}

\* the tiles answer() is called on: every sequence of at most MaxHandLen
\* tiles with numbers up to MaxHandNumber, the empty one included
HandTiles == {Tile(n, c) : n \in 0..MaxHandNumber, c \in Colours}
HandInputs == UNION {[1..n -> HandTiles] : n \in 0..MaxHandLen}

QueriesInit ==
    /\ GameInit
    /\ queries = <<>>
    /\ asked = 0
    /\ hand \in HandInputs
    /\ answer = NoAnswer

clue_factory_call ==
    /\ queries' = clue_factory
    /\ UNCHANGED <<asked, hand, answer>>

answer_call(k) ==
    /\ asked' = k
    /\ answer' \in answers(queries[k], hand)
    /\ UNCHANGED <<queries, hand>>

\* the functions of tiles.py touch nothing of a Game
QueriesNext ==
    \/ clue_factory_call /\ UNCHANGED vars
    \/ \E k \in 1..Len(queries) : answer_call(k) /\ UNCHANGED vars

SpecQueries == QueriesInit /\ [][QueriesNext]_allvars

----------------------------------------------------------------------------
(* Vocabulary of the properties                                            *)

Range(s) == {s[i] : i \in 1..Len(s)}

Occurrences(s, x) == Cardinality({i \in 1..Len(s) : s[i] = x})

RECURSIVE Flatten(_)
Flatten(ss) == IF ss = <<>> THEN <<>> ELSE Head(ss) \o Flatten(Tail(ss))

\* the tiles of the solution followed by those of every hand
DealtTiles(sol, ps) == sol \o Flatten([i \in 1..Len(ps) |-> ps[i].tiles])

AnyTile == {Tile(n, c) : n \in 0..9, c \in Colours}

\* how often a tile is in the deck of 20
InDeck(t) ==
    IF t.number = 5 THEN (IF t.colour = GREEN THEN 2 ELSE 0)
    ELSE (IF t.colour \in {WHITE, BLACK} THEN 1 ELSE 0)

OrderingKey(t) == t.number * 10 + (IF t.colour = BLACK THEN 1 ELSE 0)

Ascending(tiles) ==
    \A i \in 1..(Len(tiles) - 1) : OrderingKey(tiles[i]) <= OrderingKey(tiles[i + 1])

WellFormedFile(f) == f # <<>> /\ f[1] = <<"IS_CLUES_FILE", "\n">>

Empty ==
    /\ players = <<>>
    /\ solution = <<>>
    /\ backlog_clues = <<>>
    /\ current_clues = <<>>

PlayerOf(ps, id) == ps[CHOOSE i \in 1..Len(ps) : ps[i].id = id]

Known(id) == id \in {players[i].id : i \in 1..Len(players)}

SameTiles(a, b) ==
    /\ Len(a) = Len(b)
    /\ \A i \in 1..Len(a) : a[i].number = b[i].number /\ a[i].colour = b[i].colour

InRange(idx) == 0 <= idx /\ idx < Len(current_clues)

\* the clues are those loaded from file f with seed r after one expend_clue
\* that took the first backlog entry
ExpendedOnce(f, r) ==
    LET loaded == Loaded[f, r]
    IN  /\ loaded[2] # <<>>
        /\ backlog_clues = Tail(loaded[2])
        /\ \E j \in 1..Len(loaded[1]) :
               current_clues = [loaded[1] EXCEPT ![j] = Head(loaded[2])]

\* s without its element at position k (1-based)
Without(s, k) == SubSeq(s, 1, k - 1) \o SubSeq(s, k + 1, Len(s))

----------------------------------------------------------------------------
(* C1: for num_players 3 or 4 and every shuffle a successful new_game      *)
(* returns num_players ids, every hand has 5 tiles (3 players) or 4 tiles  *)
(* (4 players), the solution has the size of a hand, and the solution and  *)
(* the hands together hold every tile of the 20-tile deck exactly as often *)
(* as the deck does.                                                       *)
C1_DealPartitionsDeck ==
    /\ [](players # <<>> =>
             LET size == IF Len(players) = 3 THEN 5 ELSE 4
             IN  /\ \A i \in 1..Len(players) : Len(players[i].tiles) = size
                 /\ Len(solution) = size
                 /\ Len(DealtTiles(solution, players)) = 20
                 /\ \A t \in AnyTile :
                        Occurrences(DealtTiles(solution, players), t) = InDeck(t))
    \* a step either ends with n ids returned and n players, or has raised,
    \* or is no new_game(n, ..)
    /\ [][\A n \in {3, 4} :
             \/ /\ result'.returns = "ids"
                /\ Len(result'.ids) = n
                /\ Len(players') = n
             \/ result'.exc # ""
             \/ \A c \in NewGameInputs : c[1] = n => ~new_game(c[1], c[2], c[3])
         ]_vars

\* a 4-player game has just been dealt from a shuffled deck
C1_Witness ==
    /\ Len(players) = 4
    /\ result.returns = "ids"
    /\ Len(result.ids) = 4
    /\ solution # <<>>
    /\ solution[1].number # 0

(* C2: the solution and every hand are sorted ascending by the key         *)
(* number*10 + (1 if BLACK else 0) after new_game and after any later      *)
(* expend_clue and submit_solution calls.                                  *)
C2_HandsSorted ==
    /\ Ascending(solution)
    /\ \A i \in 1..Len(players) : Ascending(players[i].tiles)

\* a dealt game in which a guess was made and a clue was expended
C2_Witness ==
    /\ Len(players) = 3
    /\ \E i \in 1..Len(players) : players[i].made_guess
    /\ \E f \in WellFormedFiles, r \in SeedInputs : ExpendedOnce(f, r)
    /\ \E i \in 1..Len(players) :
           players[i].tiles[1].number > 0 /\ Ascending(players[i].tiles)

(* C3: new_game(2) raises NotImplementedError, new_game(n) with n < 2 or   *)
(* n > 4 raises the ValueError for the player count (never so for 2), and  *)
(* new_game(3), new_game(4) with a well-formed clues file do not raise.    *)
C3_NewGameErrors ==
    [][/\ \A c \in NewGameInputs :
              (c[1] = 2 /\ new_game(c[1], c[2], c[3])) =>
                  /\ result'.exc = "NotImplementedError"
                  /\ result'.exc # "ValueError"
       /\ \A c \in NewGameInputs :
              ((c[1] < 2 \/ c[1] > 4) /\ new_game(c[1], c[2], c[3])) =>
                  /\ result'.exc = "ValueError"
                  /\ result'.msg =
                         "Number of players must be between 2 and 4 inclusive"
       /\ result'.exc # "" =>
              \A c \in NewGameInputs :
                  (c[1] \in {3, 4} /\ WellFormedFile(c[2])) =>
                      ~new_game(c[1], c[2], c[3])
      ]_vars

\* new_game(2) was refused
C3_Witness == result.exc = "NotImplementedError"

(* C4: a new_game that raises leaves players, solution, backlog_clues and  *)
(* current_clues empty, whatever game was in progress before.              *)
C4_FailedNewGameResets ==
    [][\A c \in NewGameInputs :
          (result'.exc # "" /\ new_game(c[1], c[2], c[3])) => Empty'
      ]_vars

\* new_game was refused for its clues file and nothing is left
C4_Witness ==
    /\ result.msg = "Invalid clues file"
    /\ Empty

(* C5: on a player's first submit_solution made_guess becomes true, and    *)
(* guessed_correctly becomes true iff the submission has the length of the *)
(* solution and the same number and colour at every position.              *)
C5_FirstGuess ==
    [][\A p \in PlayerIdInputs, s \in SubmissionInputs :
          (Known(p) /\ ~PlayerOf(players, p).made_guess /\ submit_solution(p, s)) =>
              /\ PlayerOf(players', p).made_guess
              /\ PlayerOf(players', p).guessed_correctly <=> SameTiles(s, solution)
      ]_vars

\* one player guessed right and another one guessed wrong
C5_Witness ==
    /\ \E i \in 1..Len(players) :
           players[i].made_guess /\ players[i].guessed_correctly
    /\ \E i \in 1..Len(players) :
           players[i].made_guess /\ ~players[i].guessed_correctly

(* C6: a second submit_solution by the same player raises the ValueError   *)
(* "Player has already submitted a guess", whatever the submission, and    *)
(* changes nothing of the game.                                            *)
C6_SecondGuessRefused ==
    [][\A p \in PlayerIdInputs, s \in SubmissionInputs :
          (Known(p) /\ PlayerOf(players, p).made_guess /\ submit_solution(p, s)) =>
              /\ result' = Raised("ValueError", "Player has already submitted a guess")
              /\ UNCHANGED game
      ]_vars

\* a player who guessed wrong was refused a second guess
C6_Witness ==
    /\ result.msg = "Player has already submitted a guess"
    /\ \E i \in 1..Len(players) :
           players[i].made_guess /\ ~players[i].guessed_correctly

(* C7: with a non-empty backlog and 0 <= idx < |current_clues|,            *)
(* expend_clue(idx) puts the first backlog entry at position idx, removes  *)
(* it from the front of the backlog, and leaves the other positions and    *)
(* the size of current_clues unchanged.                                    *)
C7_ExpendReplaces ==
    [][\A idx \in IdxInputs :
          (InRange(idx) /\ backlog_clues # <<>> /\ expend_clue(idx)) =>
              /\ current_clues'[idx + 1] = backlog_clues[1]
              /\ backlog_clues' = SubSeq(backlog_clues, 2, Len(backlog_clues))
              /\ Len(current_clues') = Len(current_clues)
              /\ \A j \in 1..Len(current_clues) :
                     j # idx + 1 => current_clues'[j] = current_clues[j]
      ]_vars

\* a clue of the backlog has replaced a visible clue, another one waits
C7_Witness ==
    \E f \in WellFormedFiles, r \in SeedInputs :
        /\ Len(Loaded[f, r][2]) = 2
        /\ ExpendedOnce(f, r)
        /\ result = ReturnedNone

(* C8: with an empty backlog and 0 <= idx < |current_clues|,               *)
(* expend_clue(idx) removes the slot at idx: current_clues gets shorter by *)
(* one, the other clues keep their order, no empty entry is left.          *)
C8_ExpendShrinks ==
    [][\A idx \in IdxInputs :
          (InRange(idx) /\ backlog_clues = <<>> /\ expend_clue(idx)) =>
              /\ Len(current_clues') = Len(current_clues) - 1
              /\ current_clues' = Without(current_clues, idx + 1)
      ]_vars

(* C9: expend_clue(idx) with idx < 0 or idx >= |current_clues| raises the  *)
(* ValueError "Index is invalid" and changes nothing of the game.          *)
C9_BadIndexRefused ==
    [][\A idx \in IdxInputs :
          (~InRange(idx) /\ expend_clue(idx)) =>
              /\ result' = Raised("ValueError", "Index is invalid")
              /\ UNCHANGED game
      ]_vars

\* an index was refused while clues were visible
C9_Witness ==
    /\ result.msg = "Index is invalid"
    /\ current_clues # <<>>
    /\ backlog_clues # <<>>

(* C10: get_winners returns the ids of the players whose guessed_correctly *)
(* is true, each once, in deal order; it returns the empty list right      *)
(* after new_game and changes no state.                                    *)
C10_Winners ==
    [][/\ get_winners =>
              LET w == result'.ids
                  pos(id) == CHOOSE i \in 1..Len(players) : players[i].id = id
              IN  /\ result'.exc = ""
                  /\ Range(w) = {players[i].id : i \in
                                   {k \in 1..Len(players) : players[k].guessed_correctly}}
                  /\ \A a, b \in 1..Len(w) : a < b => pos(w[a]) < pos(w[b])
                  /\ \A i \in 1..Len(players) :
                         players[i].id = "token" \o ToString(i - 1)
                  /\ UNCHANGED game
       /\ (\E i \in 1..Len(players') : players'[i].guessed_correctly) =>
              \A c \in NewGameInputs : ~new_game(c[1], c[2], c[3])
      ]_vars

\* get_winners has returned two winners of a 4-player game
C10_Witness ==
    /\ result.returns = "ids"
    /\ Len(result.ids) = 2
    /\ Len(players) = 4
    /\ \A i \in 1..Len(players) :
           players[i].guessed_correctly <=> players[i].id \in Range(result.ids)

(* C11: submit_solution and get_character_tiles called with an id that is  *)
(* no key of players (every id while players is empty, token3 in a         *)
(* 3-player game) raise ValueError("Player ID is invalid") and leave the   *)
(* game state as it was; get_character_tiles with a known id returns the   *)
(* tiles of that player.                                                   *)
C11_UnknownPlayerRefused ==
    [][\A p \in PlayerIdInputs :
          /\ ~Known(p) =>
                 /\ get_character_tiles(p) =>
                        /\ result' = Raised("ValueError", "Player ID is invalid")
                        /\ UNCHANGED game
                 /\ \A s \in SubmissionInputs :
                        submit_solution(p, s) =>
                            /\ result' = Raised("ValueError", "Player ID is invalid")
                            /\ UNCHANGED game
          /\ (Known(p) /\ get_character_tiles(p)) =>
                 /\ result'.exc = ""
                 /\ result'.returns = "tiles"
                 /\ result'.tiles = PlayerOf(players, p).tiles
                 /\ Len(result'.tiles) = (IF Len(players) = 3 THEN 5 ELSE 4)
      ]_vars

\* token3 was refused in a 3-player game
C11_Witness ==
    /\ Len(players) = 3
    /\ ~Known("token3")
    /\ result = Raised("ValueError", "Player ID is invalid")

\* a step of a call other than new_game
InGameCall ==
    \/ \E p \in PlayerIdInputs, s \in SubmissionInputs : submit_solution(p, s)
    \/ \E idx \in IdxInputs : expend_clue(idx)
    \/ get_winners
    \/ \E p \in PlayerIdInputs : get_character_tiles(p)

\* the players stay who they are, no flag goes back to false, and
\* guessed_correctly rises only together with made_guess
FlagsMonotone ==
    /\ Len(players') = Len(players)
    /\ \A i \in 1..Len(players) :
           /\ players'[i].id = players[i].id
           /\ players[i].made_guess => players'[i].made_guess
           /\ players[i].guessed_correctly => players'[i].guessed_correctly
           /\ (~players[i].guessed_correctly /\ players'[i].guessed_correctly) =>
                  (~players[i].made_guess /\ players'[i].made_guess)

(* C12: within one game, over every step of submit_solution, expend_clue,  *)
(* get_winners and get_character_tiles, a made_guess that is true stays    *)
(* true, a guessed_correctly that is true stays true, and guessed_correctly*)
(* turns from false to true only in a step in which made_guess of the same *)
(* player turns from false to true.                                        *)
C12_FlagsNeverGoBack == [][FlagsMonotone \/ ~InGameCall]_vars

\* a player guessed correctly and a later submission was refused
C12_Witness ==
    /\ \E i \in 1..Len(players) : players[i].guessed_correctly
    /\ result = Raised("ValueError", "Player has already submitted a guess")

\* the classes of the catalog in its order: five sums, six counts, two
\* adjacencies
CatalogClasses ==
    [i \in 1..13 |-> IF i <= 5 THEN "SumQuery"
                     ELSE IF i <= 11 THEN "CountQuery" ELSE "AdjacencyQuery"]

\* the catalog as the claim counts it: 14 queries
C13_FourteenQueries == queries # <<>> => Len(queries) = 14

(* C13: every call of clue_factory returns the same ordered list of        *)
(* exactly 13 queries: five SumQuery, six CountQuery, two AdjacencyQuery,  *)
(* with pairwise different descriptions; a later call returns what the     *)
(* call before returned.                                                   *)
C13_ThirteenQueries ==
    [][clue_factory_call =>
          /\ Len(queries') = 13
          /\ [i \in 1..Len(queries') |-> queries'[i].cls] = CatalogClasses
          /\ \A i, j \in 1..Len(queries') :
                 queries'[i].description = queries'[j].description => i = j
          /\ queries # <<>> => queries' = queries
      ]_qvars

\* clue_factory has returned, and its last query has answered on a hand
C13_Witness ==
    /\ Len(queries) = 13
    /\ asked = Len(queries)
    /\ hand # <<>>

\* the text of the i-th clue of a clues file
ClueText(i) == <<ToString(i)>>

(* C14: after a successful new_game on a clues file with N clues,          *)
(* current_clues holds min(6, N) clues and backlog_clues the N - min(6, N) *)
(* others: every clue of the file is exactly once in current_clues         *)
(* followed by backlog_clues.                                              *)
C14_CluesSplit ==
    \* a step has raised, or for every n and seed it deals other players than
    \* new_game(n, .., seed), or for every file f it leaves the clues of f
    \* split, or it is no new_game(n, f, seed)
    [][\/ result'.exc # ""
       \/ \A n \in {3, 4}, r \in SeedInputs :
              \/ players' # Dealt[n, r].players
              \/ \A f \in WellFormedFiles :
                     LET N == Len(f) - 1
                     IN  \/ /\ Len(current_clues') = Min(6, N)
                            /\ Len(backlog_clues') = N - Min(6, N)
                            /\ \A i \in 1..N :
                                   Occurrences(current_clues' \o backlog_clues',
                                               ClueText(i)) = 1
                         \/ ~new_game(n, f, r)
      ]_vars

\* a game has just been started on a file of eight clues, and the clues are
\* not in the order of the file
C14_Witness ==
    /\ result.returns = "ids"
    /\ Len(current_clues) = 6
    /\ Len(backlog_clues) = 2
    /\ current_clues # [i \in 1..6 |-> ClueText(i)]
    /\ \E f \in WellFormedFiles, r \in SeedInputs :
           current_clues = Loaded[f, r][1] /\ backlog_clues = Loaded[f, r][2]

(* C15: whatever was called before, a successful new_game(n) leaves        *)
(* exactly the players token0 .. token{n-1}, in this order, each with      *)
(* made_guess and guessed_correctly false: nobody is a winner and nobody   *)
(* has used up their guess.                                                *)
C15_NewGameStartsOver ==
    \* a step has raised, or for every n it leaves such players, or it is no
    \* new_game(n, ..)
    [][\/ result'.exc # ""
       \/ \A n \in {3, 4} :
              \/ /\ Keys(players') = [i \in 1..n |-> "token" \o ToString(i - 1)]
                 /\ \A i \in 1..Len(players') :
                        /\ ~players'[i].made_guess
                        /\ ~players'[i].guessed_correctly
                 /\ Winners(players') = <<>>
              \/ \A c \in NewGameInputs : c[1] = n => ~new_game(c[1], c[2], c[3])
      ]_vars

\* new_game(3) has just returned token0, token1, token2 and no player has a
\* flag set
C15_Witness ==
    /\ result = ReturnedIds(<<"token0", "token1", "token2">>)
    /\ Keys(players) = <<"token0", "token1", "token2">>
    /\ \A i \in 1..Len(players) :
           ~players[i].made_guess /\ ~players[i].guessed_correctly

\* the clues still in the game
PoolSizeNow == Len(current_clues) + Len(backlog_clues)

(* C16: calling expend_clue with a valid index again and again empties     *)
(* current_clues after |current_clues| + |backlog_clues| successful calls, *)
(* and expend_clue is refused from then on.  Read from every state, this   *)
(* says that a successful expend_clue leaves one clue less in              *)
(* current_clues and backlog_clues together, and that it can succeed only  *)
(* while a clue is left.                                                   *)
C16_ExpendingRunsOut ==
    [][\A idx \in IdxInputs :
          (InRange(idx) /\ expend_clue(idx)) =>
              /\ result'.exc = ""
              /\ Len(current_clues') + Len(backlog_clues') = PoolSizeNow - 1
      ]_vars

\* the relation an adjacency clue asks about, by its description
Sequential(t1, t2) == t1.number + 1 = t2.number
SameColour(t1, t2) == t1.colour = t2.colour

\* the indices (from 0) of the tiles whose pair with the tile before or with
\* the tile after satisfies the relation
InRelatedPair(tiles, Related(_, _)) ==
    {i \in 0..(Len(tiles) - 1) :
        \/ i >= 1 /\ Related(tiles[i], tiles[i + 1])
        \/ i + 1 <= Len(tiles) - 1 /\ Related(tiles[i + 1], tiles[i + 2])}

\* answer holds every element of S once and nothing else
AnswerIsSet(S) ==
    /\ answer.returns = "list"
    /\ Range(answer.list) = S
    /\ Len(answer.list) = Cardinality(S)

(* C17: on every sequence of tiles, the empty one and those of one tile    *)
(* included, the answer of an adjacency clue holds, each once, exactly the *)
(* indices i whose pair (i-1, i) or (i, i+1) satisfies the relation:       *)
(* left number + 1 = right number for "sequential", equal colours for      *)
(* "the same colour".                                                      *)
C17_AdjacencyAnswers ==
    (asked # 0 /\ queries[asked].cls = "AdjacencyQuery") =>
        /\ queries[asked].description = "Which adjacent tiles are sequential?" =>
               AnswerIsSet(InRelatedPair(hand, Sequential))
        /\ queries[asked].description = "Which adjacent tiles are the same colour?" =>
               AnswerIsSet(InRelatedPair(hand, SameColour))
        /\ queries[asked].description \in
               {"Which adjacent tiles are sequential?",
                "Which adjacent tiles are the same colour?"}

\* the sequential clue has answered 0, 1 on a hand of three tiles whose
\* last tile does not follow, in an order that is not ascending
C17_Witness ==
    /\ asked # 0
    /\ queries[asked].description = "Which adjacent tiles are sequential?"
    /\ Len(hand) = 3
    /\ hand[1].number = 0 /\ hand[2].number = 1 /\ hand[3].number = 1
    /\ answer.list = <<1, 0>>

\* the same-colour clue has answered the empty list on a hand of one tile
C17_WitnessOneTile ==
    /\ asked # 0
    /\ queries[asked].description = "Which adjacent tiles are the same colour?"
    /\ Len(hand) = 1
    /\ answer = AnswerList(<<>>)

(* C18: a submit_solution(p, s) that is not refused changes nothing but    *)
(* made_guess and guessed_correctly of player p: the solution, the ids and *)
(* tiles of all players, the flags of the other players, current_clues and *)
(* backlog_clues are as before.  More than one player can be a winner.     *)
C18_SubmitTouchesOnePlayer ==
    [][\A p \in PlayerIdInputs :
          (Known(p) /\ ~PlayerOf(players, p).made_guess) =>
              \A s \in SubmissionInputs :
                  submit_solution(p, s) =>
                      /\ solution' = solution
                      /\ current_clues' = current_clues
                      /\ backlog_clues' = backlog_clues
                      /\ Len(players') = Len(players)
                      /\ \A i \in 1..Len(players) :
                             /\ players'[i].id = players[i].id
                             /\ players'[i].tiles = players[i].tiles
                             /\ players[i].id # p => players'[i] = players[i]
      ]_vars

\* two players are winners, and another player has not guessed
C18_Witness ==
    /\ \E i, j \in 1..Len(players) :
           /\ i # j
           /\ players[i].guessed_correctly
           /\ players[j].guessed_correctly
    /\ \E k \in 1..Len(players) : ~players[k].made_guess
    /\ result = ReturnedNone

(* C19: in every state every player with guessed_correctly has made_guess, *)
(* so every winner get_winners returns has submitted.                      *)
C19_WinnersHaveGuessed ==
    /\ \A i \in 1..Len(players) :
           players[i].guessed_correctly => players[i].made_guess
    /\ \A id \in Range(Keys(Winners(players))) : PlayerOf(players, id).made_guess

\* get_winners has returned one winner while another player has guessed
\* wrongly
C19_Witness ==
    /\ result.returns = "ids"
    /\ Len(result.ids) = 1
    /\ PlayerOf(players, result.ids[1]).guessed_correctly
    /\ PlayerOf(players, result.ids[1]).made_guess
    /\ \E i \in 1..Len(players) :
           players[i].made_guess /\ ~players[i].guessed_correctly

\* the clues in the game; the empty entry expend_clue leaves is no clue
LiveClues == (Range(current_clues) \cup Range(backlog_clues)) \ {<<>>}

\* a step that shows no clue, or shows the first backlog clue in one slot
\* and takes it from the backlog; no clue comes back, no clue is added
ShowsNextClueOnly ==
    /\ Len(current_clues') + Len(backlog_clues') <= PoolSizeNow
    /\ LiveClues' \subseteq LiveClues
    /\ \/ UNCHANGED <<current_clues, backlog_clues>>
       \/ /\ backlog_clues # <<>>
          /\ backlog_clues' = Tail(backlog_clues)
          /\ \E j \in 1..Len(current_clues) :
                 current_clues' = [current_clues EXCEPT ![j] = Head(backlog_clues)]
       \/ /\ backlog_clues = <<>>
          /\ backlog_clues' = <<>>
          /\ Range(current_clues') \ Range(current_clues) \subseteq {<<>>}

(* C20: in a game on a clues file with pairwise different clues, no clue   *)
(* is in current_clues and in backlog_clues at once, and over every step   *)
(* of a call other than new_game the clues get visible in the order of the *)
(* backlog, a clue that has left current_clues is in neither list          *)
(* afterwards, and |current_clues| + |backlog_clues| does not grow.        *)
C20_CluesInBacklogOrder ==
    /\ [](Range(current_clues) \cap Range(backlog_clues) = {})
    /\ [][ShowsNextClueOnly \/ ~InGameCall]_vars

\* both clues of a backlog of two were shown, the first before the second,
\* in two slots, and the two clues they replaced are gone
C20_Witness ==
    \E f \in WellFormedFiles, r \in SeedInputs :
        LET loaded == Loaded[f, r]
        IN  /\ Len(loaded[2]) = 2
            /\ backlog_clues = <<>>
            /\ \E j, k \in 1..Len(loaded[1]) :
                   /\ j # k
                   /\ current_clues =
                          [loaded[1] EXCEPT ![j] = loaded[2][1], ![k] = loaded[2][2]]
            /\ Cardinality(LiveClues) = 6

====
